---- MODULE Spec2Model ----
(***************************************************************************)
(* Model of package trap (src/trap.go): a registry of shutdown callbacks   *)
(* per OS signal, a dispatcher goroutine that drains a buffered channel of *)
(* signals, and Deferrer, which stops delivery, sends a synthetic SIGINT,  *)
(* closes the channel and waits for the dispatcher.                        *)
(*                                                                         *)
(* container/list is modelled by object identity: every list.New() makes a *)
(* new list object (an index of `lists`), every PushBack a new element (an *)
(* index of `elems`).  A CallbackRemover is the pair (list, element) its   *)
(* closure captured.                                                       *)
(***************************************************************************)
EXTENDS Integers, Sequences, FiniteSets, TLC

SIGKILL == "SIGKILL"
SIGINT  == "SIGINT"
SIGQUIT == "SIGQUIT"
SIGUSR1 == "SIGUSR1"

\* the signals callers register for
Signals == {SIGKILL, SIGINT, SIGQUIT, SIGUSR1}

\* the case of the switch in processSignal
KillSignals == {SIGKILL, SIGINT, SIGQUIT}

\* callback values passed to OnSignal; two registrations may carry the same
Callbacks == {"A", "B"}

\* the callbacks of the successive OnKill calls
KillCallbacks == <<"A", "B", "C", "D", "E", "F">>

\* capacity of ch
ChanCap == 3

\* Spec: at most this many calls of OnSignal, OnReload and removers and
\* signals raised by the OS, together, in a behaviour
MaxOps == 3

\* SpecKill: at most this many calls of OnKill and of the removers it
\* returned and signals raised by the OS, together, in a behaviour
MaxKillOps == 4

\* SpecMulti: the same bound where two goroutines call Deferrer
MaxMultiOps == 2

\* a missing map entry, a nil *list.Element
NoList == 0
Nil == 0

VARIABLES
    cbsList,     \* map[os.Signal]*list.List: signal -> list object or NoList
    lists,       \* the list objects: lists[l] is the sequence of elements of l
    elems,       \* the elements ever pushed: [sig, cb, l], l the list pushed to
    notify,      \* the signals os/signal relays into ch
    ch,          \* the buffered channel's content
    closed,      \* close(ch) has happened
    mux,         \* TRUE while mux is held across steps (by processSignal)
    wait,        \* the WaitGroup counter
    loop,        \* the dispatcher goroutine: [pc, s, cbs, e]
    dfr,         \* the Deferrer calls: d -> [pc, fault] and, as history,
                 \* clean, nreg: no list was replaced yet at the call, and
                 \* Len(elems) at the call
    callers,     \* how many goroutines call Deferrer
    kills,       \* the OnKill calls: [cb, rfns, t], rfns the removers so far
                 \* and, as history, t: truncs at its latest OnSignal call
    rm,          \* the combined remover being run: [k, i], k = 0 when none
    proc,        \* "running", or how the process ended
    log,         \* history: the elements whose callback ran, in order
    cur,         \* history: the latest processSignal call: [sig, nreg, ok,
                 \* from], Len(elems) and Len(log) when it took mux
    truncs,      \* history: how often the switch replaced the three lists
    removed,     \* history: the elements whose remover has been called
    again,       \* history: the remover calls made after the same remover
                 \* had been called or the element's list had been replaced:
                 \* [e, repl, n], n the length of the registry's list then
    ops,         \* history: calls and OS signals so far
    budget       \* the bound on ops

vars == <<cbsList, lists, elems, notify, ch, closed, mux, wait, loop, dfr,
          callers, kills, rm, proc, log, cur, truncs, removed, again, ops,
          budget>>

----------------------------------------------------------------------------
(* container/list *)

InList(q, e) == \E i \in 1..Len(q) : q[i] = e

IndexOf(q, e) == CHOOSE i \in 1..Len(q) : q[i] = e

\* l.PushBack(v), e the new element
PushBack(L, l, e) == [L EXCEPT ![l] = Append(@, e)]

\* a Remove that matches by value: it takes out every element of l that
\* carries the callback of e
RemoveByValue(L, l, e) ==
    [L EXCEPT ![l] = SelectSeq(@, LAMBDA x : elems[x].cb # elems[e].cb)]

\* l.Remove(l.Front()) where the code has l.Remove(e)
RemoveFront(L, l, e) == [L EXCEPT ![l] = IF @ = <<>> THEN @ ELSE Tail(@)]

\* l.Remove(e): only if e is an element of l (e.list == l)
Remove(L, l, e) ==
    IF InList(L[l], e)
    THEN [L EXCEPT ![l] = SelectSeq(@, LAMBDA x : x # e)]
    ELSE L

\* cbs.Front() where the code has cbs.Back()
FrontForBack(q) == IF q = <<>> THEN Nil ELSE q[1]

\* l.Back()
Back(q) == IF q = <<>> THEN Nil ELSE q[Len(q)]

\* e.Prev(): nil for the front element and for an element that was removed
\* from its list (e.list == nil)
Prev(q, e) ==
    IF ~InList(q, e) \/ IndexOf(q, e) = 1 THEN Nil ELSE q[IndexOf(q, e) - 1]

\* the content of the list the registry holds for s (empty when none)
ListOf(s) == IF cbsList[s] = NoList THEN <<>> ELSE lists[cbsList[s]]

Range(q) == {q[i] : i \in 1..Len(q)}

Reverse(q) == [i \in 1..Len(q) |-> q[Len(q) + 1 - i]]

----------------------------------------------------------------------------
(* init *)

IdleDfr == [pc |-> "idle", fault |-> FALSE, clean |-> FALSE, nreg |-> 0]

NoCall == [sig |-> SIGINT, nreg |-> 0, ok |-> FALSE, from |-> 0]

\* the state init leaves: the empty map, the empty channel, wait.Add(1) and
\* the dispatcher goroutine at its receive
InitWith(n, b) ==
    /\ cbsList = [s \in Signals |-> NoList]
    /\ lists = <<>>
    /\ elems = <<>>
    /\ notify = {}
    /\ ch = <<>>
    /\ closed = FALSE
    /\ mux = FALSE
    /\ wait = 1
    /\ loop = [pc |-> "recv", s |-> SIGINT, cbs |-> NoList, e |-> Nil]
    /\ dfr = [d \in 1..2 |-> IdleDfr]
    /\ callers = n
    /\ kills = <<>>
    /\ rm = [k |-> 0, i |-> 0]
    /\ proc = "running"
    /\ log = <<>>
    /\ cur = NoCall
    /\ truncs = 0
    /\ removed = {}
    /\ again = {}
    /\ ops = 0
    /\ budget = b

Init == InitWith(1, MaxOps)

InitKill == InitWith(1, MaxKillOps)

\* two goroutines call Deferrer
InitMulti == InitWith(2, MaxMultiOps)

----------------------------------------------------------------------------
(* OnSignal and the CallbackRemover it returns *)

\* OnSignal(sig, cb), one critical section of mux: look the list up, on a
\* miss signal.Notify(ch, sig) and a new list, then PushBack.  The remover
\* returned is (l, e) of the new element.
OnSignal(sig, cb) ==
    LET ok == cbsList[sig] # NoList
        l == IF ok THEN cbsList[sig] ELSE Len(lists) + 1
        e == Len(elems) + 1
    IN  /\ proc = "running"
        /\ ~mux
        /\ notify' = IF ok THEN notify ELSE notify \cup {sig}
        /\ cbsList' = IF ok THEN cbsList ELSE [cbsList EXCEPT ![sig] = l]
        /\ lists' = PushBack(IF ok THEN lists ELSE Append(lists, <<>>), l, e)
        /\ elems' = Append(elems, [sig |-> sig, cb |-> cb, l |-> l])
        /\ UNCHANGED <<removed, again>>

\* the registry holds another list object for e's signal than the one e was
\* pushed to
Replaced(e) == cbsList[elems[e].sig] # elems[e].l

\* q without its first element that carries the callback cb
WithoutValue(q, cb) ==
    LET hits == {i \in 1..Len(q) : elems[q[i]].cb = cb}
        first == CHOOSE i \in hits : \A j \in hits : i <= j
    IN  IF hits = {} THEN q
        ELSE [i \in 1..(Len(q) - 1) |-> IF i < first THEN q[i] ELSE q[i + 1]]

\* a remover that looks the list of its signal up again and removes the
\* first element carrying its callback
RemoverByValue(e) ==
    /\ proc = "running"
    /\ ~mux
    /\ lists' = [lists EXCEPT ![cbsList[elems[e].sig]] =
                      WithoutValue(@, elems[e].cb)]
    /\ removed' = removed \cup {e}
    /\ again' = IF e \in removed \/ Replaced(e)
                THEN again \cup {[e |-> e, repl |-> Replaced(e),
                                  n |-> Len(ListOf(elems[e].sig))]}
                ELSE again
    /\ UNCHANGED <<cbsList, elems, notify>>

\* the closure OnSignal returned for element e: Lock, l.Remove(e), Unlock
Remover(e) ==
    /\ proc = "running"
    /\ ~mux
    /\ lists' = Remove(lists, elems[e].l, e)
    /\ removed' = removed \cup {e}
    /\ again' = IF e \in removed \/ Replaced(e)
                THEN again \cup {[e |-> e, repl |-> Replaced(e),
                                  n |-> Len(ListOf(elems[e].sig))]}
                ELSE again
    /\ UNCHANGED <<cbsList, elems, notify>>

\* the elements whose removers are held inside a closure of OnKill
KillElems == UNION {Range(kills[k].rfns) : k \in 1..Len(kills)}

\* a caller registers cb for sig
CallOnSignal(sig, cb) ==
    /\ ops < budget
    /\ ops' = ops + 1
    /\ OnSignal(sig, cb)
    /\ UNCHANGED <<ch, closed, mux, wait, loop, dfr, callers, kills, rm, proc,
                   log, cur, truncs, budget>>

\* OnReload(cb)
OnReload(cb) == CallOnSignal(SIGUSR1, cb)

\* a caller invokes the remover OnSignal or OnReload returned to it
CallRemover(e) ==
    /\ ops < budget
    /\ ops' = ops + 1
    /\ e \in (1..Len(elems)) \ KillElems
    /\ Remover(e)
    /\ UNCHANGED <<ch, closed, mux, wait, loop, dfr, callers, kills, rm, proc,
                   log, cur, truncs, budget>>

----------------------------------------------------------------------------
(* OnKill and the combined remover *)

\* an OnKill whose third OnSignal call repeats SIGQUIT
KillOrderTwice == <<SIGKILL, SIGQUIT, SIGQUIT>>

\* the order of the three OnSignal calls of OnKill
KillOrder == <<SIGKILL, SIGQUIT, SIGINT>>

\* TRUE while an OnKill call has made fewer than its three OnSignal calls
KillBusy == kills # <<>> /\ Len(kills[Len(kills)].rfns) < 3

\* One OnSignal call of OnKill(cb): the first of a new call, or the next of
\* the call in progress.  The three are separate critical sections.
OnKill(cb) ==
    LET k == IF KillBusy THEN Len(kills) ELSE Len(kills) + 1
        done == IF KillBusy THEN kills[k].rfns ELSE <<>>
    IN  /\ IF KillBusy
           THEN cb = kills[k].cb /\ ops' = ops
           ELSE cb = KillCallbacks[k] /\ ops < budget /\ ops' = ops + 1
        /\ OnSignal(KillOrder[Len(done) + 1], cb)
        /\ kills' = IF KillBusy
                    THEN [kills EXCEPT ![k].rfns = Append(@, Len(elems) + 1),
                                       ![k].t = truncs]
                    ELSE Append(kills, [cb |-> cb, rfns |-> <<Len(elems) + 1>>,
                                        t |-> truncs])
        /\ UNCHANGED <<ch, closed, mux, wait, loop, dfr, callers, rm, proc,
                       log, cur, truncs, budget>>

\* One dfn() of the closure OnKill call k returned: the loop over rfns runs
\* the three removers in the order they were appended.
KillRemover(k) ==
    LET i == IF rm.k = k THEN rm.i ELSE 1
    IN  /\ k \in 1..Len(kills)
        /\ Len(kills[k].rfns) = 3
        /\ rm.k \in {0, k}
        /\ IF rm.k = k THEN ops' = ops ELSE ops < budget /\ ops' = ops + 1
        /\ Remover(kills[k].rfns[i])
        /\ rm' = IF i = 3 THEN [k |-> 0, i |-> 0] ELSE [k |-> k, i |-> i + 1]
        /\ UNCHANGED <<ch, closed, mux, wait, loop, dfr, callers, kills, proc,
                       log, cur, truncs, budget>>

----------------------------------------------------------------------------
(* the dispatcher goroutine of init, and processSignal *)

\* s, ok = <-ch with a signal buffered
LoopRecv ==
    /\ proc = "running"
    /\ loop.pc = "recv"
    /\ ch # <<>>
    /\ loop' = [loop EXCEPT !.pc = "process", !.s = Head(ch)]
    /\ ch' = Tail(ch)
    /\ UNCHANGED <<cbsList, lists, elems, notify, closed, mux, wait, dfr,
                   callers, kills, rm, proc, log, cur, truncs, removed, again,
                   ops, budget>>

\* a loop that breaks as soon as ch is closed, whatever ch still holds
LoopExitOnClose ==
    /\ proc = "running"
    /\ loop.pc = "recv"
    /\ closed
    /\ loop' = [loop EXCEPT !.pc = "done"]
    /\ wait' = wait - 1
    /\ UNCHANGED <<cbsList, lists, elems, notify, ch, closed, mux, dfr,
                   callers, kills, rm, proc, log, cur, truncs, removed, again,
                   ops, budget>>

\* <-ch on the closed, drained channel: break, then the deferred wait.Done()
LoopExit ==
    /\ proc = "running"
    /\ loop.pc = "recv"
    /\ ch = <<>>
    /\ closed
    /\ loop' = [loop EXCEPT !.pc = "done"]
    /\ wait' = wait - 1
    /\ UNCHANGED <<cbsList, lists, elems, notify, ch, closed, mux, dfr,
                   callers, kills, rm, proc, log, cur, truncs, removed, again,
                   ops, budget>>

\* the position of a kill signal in the three assignments of the switch
KillSlot(s) == IF s = SIGKILL THEN 1 ELSE IF s = SIGINT THEN 2 ELSE 3

\* a switch that replaces the list of s alone
TruncateOne(m, n, s) ==
    IF s \in KillSignals THEN [m EXCEPT ![s] = n + KillSlot(s)] ELSE m

\* a switch without the assignment to cbsList[syscall.SIGQUIT]
TruncateKeepQuit(m, n, s) ==
    IF s \in KillSignals
    THEN [t \in Signals |-> IF t \in {SIGKILL, SIGINT} THEN n + KillSlot(t)
                                                       ELSE m[t]]
    ELSE m

\* a switch that empties the whole map on a kill signal: the three kill
\* signals get new lists, every other signal loses its list
TruncateAll(m, n, s) ==
    IF s \in KillSignals
    THEN [t \in Signals |-> IF t \in KillSignals THEN n + KillSlot(t) ELSE NoList]
    ELSE m

\* the map after the switch of processSignal(s); n list objects exist
Truncate(m, n, s) ==
    IF s \in KillSignals
    THEN [t \in Signals |-> IF t \in KillSignals THEN n + KillSlot(t) ELSE m[t]]
    ELSE m

\* the list objects after the switch of processSignal(s)
NewLists(L, s) == IF s \in KillSignals THEN L \o <<<<>>, <<>>, <<>>>> ELSE L

\* a processSignal that unlocks before its loop: lookup and switch under
\* the lock, the callbacks without it
ProcessLockReleased ==
    LET s == loop.s
        cbs == cbsList[s]
    IN  /\ proc = "running"
        /\ loop.pc = "process"
        /\ ~mux
        /\ IF cbs = NoList
           THEN /\ loop' = [loop EXCEPT !.pc = "recv", !.s = SIGINT]
                /\ UNCHANGED <<mux, cbsList, lists, truncs>>
           ELSE /\ mux' = FALSE
                /\ cbsList' = Truncate(cbsList, Len(lists), s)
                /\ lists' = NewLists(lists, s)
                /\ truncs' = IF s \in KillSignals THEN truncs + 1 ELSE truncs
                /\ loop' = [pc |-> "iterate", s |-> s, cbs |-> cbs,
                            e |-> Back(lists[cbs])]
        /\ cur' = [sig |-> s, nreg |-> Len(elems), ok |-> cbs # NoList,
                   from |-> Len(log)]
        /\ UNCHANGED <<elems, notify, ch, closed, wait, dfr, callers, kills,
                       rm, proc, log, removed, again, ops, budget>>

\* processSignal(s) up to the loop: Lock, the lookup, the switch, cbs.Back().
\* Without a list it returns at once (Lock and the deferred Unlock).
ProcessLock ==
    LET s == loop.s
        cbs == cbsList[s]
    IN  /\ proc = "running"
        /\ loop.pc = "process"
        /\ ~mux
        /\ IF cbs = NoList
           THEN /\ loop' = [loop EXCEPT !.pc = "recv", !.s = SIGINT]
                /\ UNCHANGED <<mux, cbsList, lists, truncs>>
           ELSE /\ mux' = TRUE
                /\ cbsList' = Truncate(cbsList, Len(lists), s)
                /\ lists' = NewLists(lists, s)
                /\ truncs' = IF s \in KillSignals THEN truncs + 1 ELSE truncs
                /\ loop' = [pc |-> "iterate", s |-> s, cbs |-> cbs,
                            e |-> Back(lists[cbs])]
        /\ cur' = [sig |-> s, nreg |-> Len(elems), ok |-> cbs # NoList,
                   from |-> Len(log)]
        /\ UNCHANGED <<elems, notify, ch, closed, wait, dfr, callers, kills,
                       rm, proc, log, removed, again, ops, budget>>

\* One turn of the loop of processSignal: cb() of the element e, e = e.Prev().
\* Every list value is a Callback (OnSignal pushes nothing else), so the type
\* assertion holds; cb() itself touches none of the package's variables.
ProcessCall ==
    /\ proc = "running"
    /\ loop.pc = "iterate"
    /\ loop.e # Nil
    /\ log' = Append(log, loop.e)
    /\ loop' = [loop EXCEPT !.e = Prev(lists[loop.cbs], loop.e)]
    /\ UNCHANGED <<cbsList, lists, elems, notify, ch, closed, mux, wait, dfr,
                   callers, kills, rm, proc, cur, truncs, removed, again, ops,
                   budget>>

\* the loop of processSignal ends (e == nil): return, the deferred Unlock
ProcessReturn ==
    /\ proc = "running"
    /\ loop.pc = "iterate"
    /\ loop.e = Nil
    /\ mux' = FALSE
    /\ loop' = [pc |-> "recv", s |-> SIGINT, cbs |-> NoList, e |-> Nil]
    /\ UNCHANGED <<cbsList, lists, elems, notify, ch, closed, wait, dfr,
                   callers, kills, rm, proc, log, cur, truncs, removed, again,
                   ops, budget>>

----------------------------------------------------------------------------
(* os/signal: delivery into ch *)

\* The OS raises sig while os/signal relays it to ch.  The relay's send does
\* not block: with ch full the signal is dropped; on the closed channel the
\* send panics.  SIGKILL is never handed to a process, so signal.Notify for
\* it relays nothing.
Signal(sig) ==
    /\ proc = "running"
    /\ sig \in notify \ {SIGKILL}
    /\ ops < budget
    /\ ops' = ops + 1
    /\ IF closed
       THEN proc' = "panic: send on closed channel" /\ ch' = ch
       ELSE /\ ch' = IF Len(ch) < ChanCap THEN Append(ch, sig) ELSE ch
            /\ proc' = proc
    /\ UNCHANGED <<cbsList, lists, elems, notify, closed, mux, wait, loop,
                   dfr, callers, kills, rm, log, cur, truncs, removed, again,
                   budget>>

----------------------------------------------------------------------------
(* Deferrer *)

\* a Deferrer that calls os.Exit(1) where the code defers it
DeferrerExitNow(d, fault) ==
    /\ proc = "running"
    /\ d <= callers
    /\ dfr[d].pc = "idle"
    /\ IF fault
       THEN proc' = "exit(1)" /\ UNCHANGED <<notify, dfr>>
       ELSE /\ proc' = proc
            /\ notify' = {}
            /\ dfr' = [dfr EXCEPT ![d] = [pc |-> "send", fault |-> fault,
                                          clean |-> truncs = 0,
                                          nreg |-> Len(elems)]]
    /\ UNCHANGED <<cbsList, lists, elems, ch, closed, mux, wait, loop,
                   callers, kills, rm, log, cur, truncs, removed, again,
                   ops, budget>>

\* Deferrer, called by goroutine d, up to signal.Stop(ch): recover() tells
\* whether a panic is unwinding (fault); then os.Exit(1) is deferred.
DeferrerStop(d, fault) ==
    /\ proc = "running"
    /\ d <= callers
    /\ dfr[d].pc = "idle"
    /\ notify' = {}
    /\ dfr' = [dfr EXCEPT ![d] = [pc |-> "send", fault |-> fault,
                                  clean |-> truncs = 0,
                                  nreg |-> Len(elems)]]
    /\ UNCHANGED <<cbsList, lists, elems, ch, closed, mux, wait, loop,
                   callers, kills, rm, proc, log, cur, truncs, removed, again,
                   ops, budget>>

\* a Deferrer that closes ch without sending SIGINT first
DeferrerNoSend(d) ==
    /\ proc = "running"
    /\ dfr[d].pc = "send"
    /\ dfr' = [dfr EXCEPT ![d].pc = "close"]
    /\ UNCHANGED <<cbsList, lists, elems, notify, ch, closed, mux, wait, loop,
                   callers, kills, rm, proc, log, cur, truncs, removed, again,
                   ops, budget>>

\* ch <- syscall.SIGINT: blocks while ch is full, panics once ch is closed
DeferrerSend(d) ==
    /\ proc = "running"
    /\ dfr[d].pc = "send"
    /\ IF closed
       THEN /\ proc' = "panic: send on closed channel"
            /\ dfr' = [dfr EXCEPT ![d].pc = "panic"]
            /\ ch' = ch
       ELSE /\ Len(ch) < ChanCap
            /\ ch' = Append(ch, SIGINT)
            /\ dfr' = [dfr EXCEPT ![d].pc = "close"]
            /\ proc' = proc
    /\ UNCHANGED <<cbsList, lists, elems, notify, closed, mux, wait, loop,
                   callers, kills, rm, log, cur, truncs, removed, again, ops,
                   budget>>

\* close(ch): panics when ch is closed already
DeferrerClose(d) ==
    /\ proc = "running"
    /\ dfr[d].pc = "close"
    /\ IF closed
       THEN /\ proc' = "panic: close of closed channel"
            /\ dfr' = [dfr EXCEPT ![d].pc = "panic"]
            /\ closed' = closed
       ELSE /\ closed' = TRUE
            /\ dfr' = [dfr EXCEPT ![d].pc = "wait"]
            /\ proc' = proc
    /\ UNCHANGED <<cbsList, lists, elems, notify, ch, mux, wait, loop,
                   callers, kills, rm, log, cur, truncs, removed, again, ops,
                   budget>>

\* a Deferrer that does not wait for the dispatcher before it returns or exits
DeferrerNoWait(d) ==
    /\ proc = "running"
    /\ dfr[d].pc = "wait"
    /\ dfr' = [dfr EXCEPT ![d].pc = "returned"]
    /\ proc' = IF dfr[d].fault THEN "exit(1)" ELSE proc
    /\ UNCHANGED <<cbsList, lists, elems, notify, ch, closed, mux, wait, loop,
                   callers, kills, rm, log, cur, truncs, removed, again, ops,
                   budget>>

\* wait.Wait() returns once the counter is zero; then Deferrer returns, or
\* the deferred os.Exit(1) runs when recover() had found a panic
DeferrerReturn(d) ==
    /\ proc = "running"
    /\ dfr[d].pc = "wait"
    /\ wait = 0
    /\ dfr' = [dfr EXCEPT ![d].pc = "returned"]
    /\ proc' = IF dfr[d].fault THEN "exit(1)" ELSE proc
    /\ UNCHANGED <<cbsList, lists, elems, notify, ch, closed, mux, wait, loop,
                   callers, kills, rm, log, cur, truncs, removed, again, ops,
                   budget>>

----------------------------------------------------------------------------
(* the specifications *)

Dispatcher ==
    \/ LoopRecv
    \/ LoopExit
    \/ ProcessLock
    \/ ProcessCall
    \/ ProcessReturn

Shutdown ==
    \/ \E d \in 1..2, fault \in BOOLEAN : DeferrerStop(d, fault)
    \/ \E d \in 1..2 : DeferrerSend(d)
    \/ \E d \in 1..2 : DeferrerClose(d)
    \/ \E d \in 1..2 : DeferrerReturn(d)

\* callers use OnSignal, OnReload and the removers these return
Next ==
    \/ \E sig \in Signals, cb \in Callbacks : CallOnSignal(sig, cb)
    \/ \E cb \in Callbacks : OnReload(cb)
    \/ \E e \in 1..Len(elems) : CallRemover(e)
    \/ \E sig \in Signals : Signal(sig)
    \/ Dispatcher
    \/ Shutdown

Spec == Init /\ [][Next]_vars

\* The Go scheduler lets every runnable goroutine run: the dispatcher
\* goroutine takes its next step when it has one, and a goroutine inside
\* Deferrer goes on when its send, its close or its wait can proceed.
Fairness ==
    /\ WF_vars(Dispatcher)
    /\ \A d \in 1..2 : /\ WF_vars(DeferrerSend(d))
                       /\ WF_vars(DeferrerClose(d))
                       /\ WF_vars(DeferrerReturn(d))

SpecFair == Init /\ [][Next]_vars /\ Fairness

SpecMulti == InitMulti /\ [][Next]_vars

\* callers use OnKill and the removers it returns; Deferrer is called with no
\* panic unwinding
NextKill ==
    \/ \E cb \in Range(KillCallbacks) : OnKill(cb)
    \/ \E k \in 1..Len(kills) : KillRemover(k)
    \/ \E sig \in Signals : Signal(sig)
    \/ Dispatcher
    \/ \E d \in 1..2 : DeferrerStop(d, FALSE)
    \/ \E d \in 1..2 : DeferrerSend(d)
    \/ \E d \in 1..2 : DeferrerClose(d)
    \/ \E d \in 1..2 : DeferrerReturn(d)

SpecKill == InitKill /\ [][NextKill]_vars

----------------------------------------------------------------------------
(* what the claims speak of *)

Elems == 1..Len(elems)

\* the elements pushed for s among the first n, in the order of their
\* registration
Registered(s, n) == SelectSeq([i \in 1..n |-> i], LAMBDA e : elems[e].sig = s)

\* the callbacks the latest processSignal call has run so far
CurCalls == SubSeq(log, cur.from + 1, Len(log))

\* the latest processSignal call has run its last callback
CurDone == loop.pc # "iterate" \/ loop.e = Nil

IsPrefix(p, q) == Len(p) <= Len(q) /\ p = SubSeq(q, 1, Len(p))

\* what the registry holds for s: whether there is a list, and its content
Entry(s) == <<cbsList[s] # NoList, ListOf(s)>>

\* C1: a processSignal call for s runs the callbacks registered for s before
\* it, each once, last registered first -- as long as no remover of theirs
\* was called and, for a kill signal, the switch had not replaced the lists
\* before this call.
C1_ReverseOrder ==
    LET regd == Registered(cur.sig, cur.nreg)
    IN  (/\ Range(regd) \cap removed = {}
         /\ cur.sig \in KillSignals /\ cur.ok => truncs = 1)
        => /\ IsPrefix(CurCalls, Reverse(regd))
           /\ CurDone => CurCalls = Reverse(regd)

\* C1 witness: three registrations for one signal, none removed, and the
\* call for that signal has run all three in reverse order
C1_Witness ==
    LET regd == Registered(cur.sig, cur.nreg)
    IN  /\ cur.ok
        /\ CurDone
        /\ Len(regd) = 3
        /\ Range(regd) \cap removed = {}
        /\ CurCalls = <<regd[3], regd[2], regd[1]>>

\* the elements pushed by the first three OnKill calls
FirstThree == UNION {Range(kills[k].rfns) : k \in 1..3}

\* the callbacks of the first three OnKill calls that ran, in order
RanOfFirstThree ==
    LET f == SelectSeq(log, LAMBDA e : e \in FirstThree)
    IN  [i \in 1..Len(f) |-> elems[f[i]].cb]

\* the first three OnKill calls, of A, B and C in this order, have returned
\* before the switch ever replaced the lists, and none of their removers was
\* called
ThreeKillsRegistered ==
    /\ Len(kills) >= 3
    /\ Len(kills[3].rfns) = 3
    /\ kills[3].t = 0
    /\ FirstThree \cap removed = {}

\* C2: with A, B, C registered by OnKill in this order before any kill
\* signal is processed, whatever kill signals are delivered then, the
\* callbacks that run are C, B, A in this order, each once over all
\* processSignal calls: never anything but a prefix of C, B, A, and all of
\* it once a call that replaced the lists has run its callbacks.
C2_OnceInReverse ==
    ThreeKillsRegistered
    => /\ IsPrefix(RanOfFirstThree, <<"C", "B", "A">>)
       /\ truncs >= 1 /\ CurDone => RanOfFirstThree = <<"C", "B", "A">>

\* C2 witness: A, B, C registered, two kill signals processed (the second
\* found the replaced lists), and C, B, A ran once each
C2_Witness ==
    /\ ThreeKillsRegistered
    /\ truncs >= 2
    /\ CurDone
    /\ RanOfFirstThree = <<"C", "B", "A">>

\* Deferrer call d has returned; it was called with no panic unwinding and
\* before any kill signal was processed
ReturnedClean(d) ==
    /\ dfr[d].pc = "returned"
    /\ ~dfr[d].fault
    /\ dfr[d].clean

\* the elements registered for s with callback cb when Deferrer call d began,
\* whose remover was not called
HeldAt(d, s, cb) ==
    {e \in 1..dfr[d].nreg :
        elems[e].sig = s /\ elems[e].cb = cb /\ e \notin removed}

\* C3 as claimed: when Deferrer, called with no panic unwinding and before any
\* kill signal was processed, has returned, every callback that was
\* registered for SIGINT, SIGQUIT or SIGKILL at the call has run, and the
\* process has not exited with status 1.
C3_Original ==
    \A d \in 1..2 :
        ReturnedClean(d)
        => /\ proc # "exit(1)"
           /\ \A s \in KillSignals, cb \in Callbacks :
                  \A e \in HeldAt(d, s, cb) : InList(log, e)

\* C3 as amended: ... every callback that was registered for all three of
\* SIGINT, SIGQUIT and SIGKILL at the call (as OnKill registers it) has run
\* through one of these registrations, and the process has not exited with
\* status 1.
C3_KillCallbacksRun ==
    \A d \in 1..2 :
        ReturnedClean(d)
        => /\ proc # "exit(1)"
           /\ \A cb \in Callbacks :
                  (\A s \in KillSignals : HeldAt(d, s, cb) # {})
                  => \E s \in KillSignals :
                         \E e \in HeldAt(d, s, cb) : InList(log, e)

\* C3 witness: Deferrer has returned from such a call with a callback held
\* for all three kill signals, and that callback has run
C3_Witness ==
    /\ ReturnedClean(1)
    /\ proc = "running"
    /\ \E cb \in Callbacks :
           /\ \A s \in KillSignals : HeldAt(1, s, cb) # {}
           /\ \E s \in KillSignals : \E e \in HeldAt(1, s, cb) : InList(log, e)

\* C4: when Deferrer was called with a panic unwinding, the process exits
\* with status 1 only after the channel, the synthetic SIGINT included, was
\* drained, the last processSignal call has run its callbacks and returned,
\* and the dispatcher has called wait.Done(); nothing runs after the exit.
\* When no kill signal had been processed before the call, the callbacks
\* held for all three kill signals have run by then.
C4_ExitAfterCleanup ==
    proc = "exit(1)"
    => /\ closed
       /\ ch = <<>>
       /\ loop.pc = "done"
       /\ ~mux
       /\ wait = 0
       /\ \E d \in 1..2 : dfr[d].pc = "returned" /\ dfr[d].fault
       /\ \A d \in 1..2, cb \in Callbacks :
              (/\ dfr[d].fault
               /\ dfr[d].clean
               /\ \A s \in KillSignals : HeldAt(d, s, cb) # {})
              => \E s \in KillSignals :
                     \E e \in HeldAt(d, s, cb) : InList(log, e)

\* C4 witness: the process has exited with status 1 after the processSignal
\* call for the synthetic SIGINT ran two callbacks
C4_Witness ==
    /\ proc = "exit(1)"
    /\ dfr[1].clean
    /\ cur.sig = SIGINT
    /\ Len(CurCalls) >= 2

\* C5: once the remover of an element has been called, no processSignal call
\* runs the callback of that element any more; so an element whose remover
\* returned before any signal of its identity was processed never runs.
C5_RemovedNeverRuns ==
    [][\A e \in removed : log' = log \/ log'[Len(log')] # e]_vars

\* C5 witness: the remover of e was called, e has never run, and a later
\* processSignal call for e's signal has gone through the list e was pushed
\* to and run another element of it
C5_Witness ==
    \E e \in removed :
        /\ ~InList(log, e)
        /\ cur.ok
        /\ cur.sig = elems[e].sig
        /\ cur.nreg >= e
        /\ CurDone
        /\ \E i \in 1..Len(CurCalls) : elems[CurCalls[i]].l = elems[e].l

\* C6: a remover called a second time, or called after the list of its
\* signal was replaced by the switch of processSignal, leaves what the
\* registry holds for every signal as it was (no element removed, no list
\* made), and the process keeps running.
C6_RemoverNoOp ==
    [][\A e \in Elems :
           (CallRemover(e) /\ (e \in removed \/ Replaced(e)))
           => /\ \A s \in Signals : Entry(s)' = Entry(s)
              /\ proc' = proc]_vars

\* C6 witness: a remover was called after its list had been replaced and a
\* new callback had been registered in the replacement, which is still there
C6_Witness ==
    \E r \in again :
        /\ r.repl
        /\ r.n > 0
        /\ Len(ListOf(elems[r.e].sig)) = r.n

\* a processSignal call is under way in this step: it takes the lock, or it
\* holds the lock in its loop
InDispatch == ProcessLock \/ loop.pc = "iterate"

\* C7: a processSignal call for s runs only callbacks registered for s; from
\* its Lock to its Unlock a call for SIGUSR1 leaves the registry entry of
\* every kill signal as it was, and a call for a kill signal leaves the
\* registry entry of SIGUSR1 as it was.
C7_Isolation ==
    [][InDispatch =>
         /\ log' # log => elems[log'[Len(log')]].sig = loop.s
         /\ loop.s = SIGUSR1 => \A t \in KillSignals : Entry(t)' = Entry(t)
         /\ loop.s \in KillSignals => Entry(SIGUSR1)' = Entry(SIGUSR1)]_vars

\* C7 witness: a SIGUSR1 callback has run, later a kill-signal callback has
\* run, that call has ended and SIGUSR1 still holds its callback
C7_Witness ==
    /\ CurDone
    /\ cur.sig \in KillSignals
    /\ ListOf(SIGUSR1) # <<>>
    /\ \E i, j \in 1..Len(log) :
           /\ i < j
           /\ elems[log[i]].sig = SIGUSR1
           /\ elems[log[j]].sig \in KillSignals

\* C8: once a Deferrer call has returned, no step runs a callback and the
\* dispatcher goroutine takes no step, whatever the registry holds.
C8_NoDispatchAfterReturn ==
    [][(\E d \in 1..2 : dfr[d].pc = "returned")
       => log' = log /\ loop' = loop /\ loop.pc = "done"]_vars

\* C8 witness: Deferrer has returned, the process runs on, and a callback
\* registered after the return sits in the registry with its signal relayed
C8_Witness ==
    /\ proc = "running"
    /\ dfr[1].pc = "returned"
    /\ \E e \in Elems :
           /\ e > dfr[1].nreg
           /\ InList(ListOf(elems[e].sig), e)
           /\ elems[e].sig \in notify
           /\ ops > e

\* C9: with one Deferrer call running beside OnSignal calls of other
\* goroutines and signals raised by the OS, the os/signal relay never sends
\* on ch after close(ch).
C9_NoSendOnClosed == ~(closed /\ proc = "panic: send on closed channel")

\* the callbacks held by the registry list of s, in list order
CallbacksOf(s) == [i \in 1..Len(ListOf(s)) |-> elems[ListOf(s)[i]].cb]

\* the elements OnKill call k has pushed
Pushed(k) == Range(kills[k].rfns)

\* OnKill call k has returned
KillReturned(k) == Len(kills[k].rfns) = 3

\* C10, the states: an OnKill call that returned has pushed its callback
\* once for each of SIGKILL, SIGQUIT and SIGINT, and while no list was
\* replaced and no remover ran the registry holds it on all three; once its
\* combined remover has returned no kill-signal list holds the callback.
C10_States ==
    \A k \in 1..Len(kills) :
        /\ \A e \in Pushed(k) : elems[e].cb = kills[k].cb
        /\ KillReturned(k) =>
               {elems[e].sig : e \in Pushed(k)} = KillSignals
        /\ KillReturned(k) /\ truncs = 0 /\ Pushed(k) \cap removed = {} =>
               \A s \in KillSignals :
                   \E e \in Pushed(k) : InList(ListOf(s), e)
        /\ KillReturned(k) /\ Pushed(k) \subseteq removed =>
               \A s \in KillSignals : ~InList(CallbacksOf(s), kills[k].cb)

\* C10, the steps: a step of the combined remover of call k takes the one
\* element of call k out of the list of its signal; every list keeps its
\* other elements in their order and no signal changes its list.
C10_Steps ==
    \A k \in 1..Len(kills) :
        KillRemover(k) =>
            /\ cbsList' = cbsList
            /\ \A s \in Signals :
                   ListOf(s)' = SelectSeq(ListOf(s),
                                          LAMBDA x : x \notin Pushed(k))
                   \/ ListOf(s)' = ListOf(s)

\* C10: OnKill registers its callback on all three kill signals and the
\* combined remover takes it out of all three, leaving every other
\* registration in place and in order.
C10_OnKillAndRemover == []C10_States /\ [][C10_Steps]_vars

\* C10 witness: three OnKill calls returned, the combined remover of the
\* second has returned, no list was replaced, and every kill-signal list
\* holds the callbacks of the first and the third call in this order
C10_Witness ==
    /\ Len(kills) = 3
    /\ KillReturned(3)
    /\ Pushed(2) \subseteq removed
    /\ rm.k = 0
    /\ truncs = 0
    /\ \A s \in KillSignals : CallbacksOf(s) = <<kills[1].cb, kills[3].cb>>

\* C11: under fair scheduling a Deferrer call that has stopped delivery
\* goes on to return (or to the os.Exit(1) it deferred): its send of SIGINT
\* completes and its wait ends.
C11_DeferrerReturns == (dfr[1].pc = "send") ~> (dfr[1].pc = "returned")

\* how often a callback pushed by OnKill call k has run
RunsOf(k) == Cardinality({i \in 1..Len(log) : log[i] \in Pushed(k)})

\* C12: whatever the interleaving of the three OnSignal calls of an OnKill
\* call with processSignal calls for kill signals and with one Deferrer
\* call, the callback of that OnKill call runs at most once.
C12_AtMostOnce == \A k \in 1..Len(kills) : RunsOf(k) <= 1

\* the list of e was replaced in the registry and processSignal is not
\* walking it
Dropped(e) ==
    /\ elems[e].sig \in KillSignals
    /\ Replaced(e)
    /\ ~(loop.pc = "iterate" /\ loop.cbs = elems[e].l)

\* C13, the states: while processSignal runs the callbacks of a kill signal,
\* the registry holds an empty list for each of SIGKILL, SIGINT and SIGQUIT.
C13_States ==
    loop.pc = "iterate" /\ loop.s \in KillSignals
    => \A t \in KillSignals : Entry(t) = <<TRUE, <<>>>>

\* C13, the steps: the step of processSignal that looks up the list of a
\* kill signal also replaces the three lists, keeps the lock and runs no
\* callback; and a callback whose list was replaced while another list was
\* looked up never runs.
C13_Steps ==
    /\ ProcessLock /\ loop.s \in KillSignals /\ cbsList[loop.s] # NoList
       => /\ \A t \in KillSignals : Entry(t)' = <<TRUE, <<>>>>
          /\ log' = log
          /\ mux'
    /\ \A e \in Elems : Dropped(e) => log' = log \/ log'[Len(log')] # e

\* C13: the three kill-signal lists are replaced by empty lists in the
\* critical section of the lookup, before the first callback; callbacks run
\* only with all three empty; a callback registered for SIGQUIT alone is
\* dropped, never run, when SIGINT is processed first.
C13_AtomicTruncation == []C13_States /\ [][C13_Steps]_vars

\* C13 witness: a callback registered for SIGQUIT alone, its remover never
\* called, and processSignal(SIGINT), begun after that, is running the
\* SIGINT callbacks: the SIGQUIT callback has not run and its list is gone
C13_Witness ==
    \E e \in Elems :
        /\ elems[e].sig = SIGQUIT
        /\ e \notin removed
        /\ ~InList(log, e)
        /\ Dropped(e)
        /\ cur.sig = SIGINT
        /\ cur.nreg >= e
        /\ loop.pc = "iterate"
        /\ Len(CurCalls) >= 1

\* OnSignal has been called for s
EverRegistered(s) == \E e \in Elems : elems[e].sig = s

\* C14: the registry holds a list for a signal exactly if a callback was
\* ever registered for that signal.
C14_ListIffRegistered ==
    \A s \in Signals : cbsList[s] # NoList <=> EverRegistered(s)

\* C15: as long as no Deferrer call has stopped delivery, every signal
\* OnSignal was called for is relayed into ch by os/signal.
C15_DeliveryRequested ==
    (\A d \in 1..2 : dfr[d].pc = "idle")
    => \A s \in Signals : EverRegistered(s) => s \in notify

\* C16: while processSignal runs the callbacks of a signal, the lock is free
\* for an OnSignal or remover call on another signal (both begin with
\* mux.Lock(), which returns only when no one holds mux), so that such a
\* call can complete before the callbacks have all returned.
C16_NeverBlocks ==
    proc = "running" /\ loop.pc = "iterate" /\ loop.e # Nil => ~mux

\* the dispatcher goroutine: 1 Running, 2 Draining (ch closed), 3 Stopped
\* (it has left its loop and called wait.Done())
Phase == IF loop.pc = "done" THEN 3 ELSE IF closed THEN 2 ELSE 1

\* C17, the states: wait.Done() has been called only with ch closed and
\* empty and with no processSignal call unfinished.
C17_States ==
    wait = 0 \/ loop.pc = "done"
    => wait = 0 /\ loop.pc = "done" /\ closed /\ ch = <<>> /\ ~mux

\* C17, the steps: the dispatcher never moves back; ch changes only by a
\* send at its back while it is open or by the dispatcher's receive of its
\* head; and the signal received is handed to processSignal before anything
\* else the dispatcher does.
C17_Steps ==
    /\ Phase' >= Phase
    /\ ch' # ch =>
           \/ ~closed /\ \E s \in Signals : ch' = Append(ch, s)
           \/ /\ ch # <<>> /\ ch' = Tail(ch)
              /\ loop.pc = "recv"
              /\ loop' = [loop EXCEPT !.pc = "process", !.s = Head(ch)]
    /\ loop.pc = "process" /\ loop' # loop => ProcessLock

\* C17: Running -> Draining -> Stopped only; every signal in ch at the close
\* is received, in the order it was sent, and processed before wait.Done().
C17_DrainThenStop == []C17_States /\ [][C17_Steps]_vars

\* C17 witness: the dispatcher has stopped after it processed a SIGUSR1 of
\* the OS and then the SIGINT of Deferrer: a SIGUSR1 callback ran and after
\* it, in the last processSignal call, a SIGINT callback
C17_Witness ==
    /\ loop.pc = "done"
    /\ wait = 0
    /\ cur.sig = SIGINT
    /\ dfr[1].clean
    /\ \E i, j \in 1..Len(log) :
           /\ i < j
           /\ elems[log[i]].sig = SIGUSR1
           /\ elems[log[j]].sig = SIGINT

\* C18: with two Deferrer calls, one after the other or side by side and
\* neither with a panic unwinding, no call panics in its send on ch or in
\* its close(ch) (so that each can go on to return).
C18_NoPanicInDeferrer ==
    (\A d \in 1..2 : ~dfr[d].fault) => \A d \in 1..2 : dfr[d].pc # "panic"

\* e1 and e2 are two registrations of the same callback for the same signal
\* in the same list
Twins(e1, e2) ==
    /\ e1 # e2
    /\ elems[e1].sig = elems[e2].sig
    /\ elems[e1].cb = elems[e2].cb
    /\ elems[e1].l = elems[e2].l

\* how often the latest processSignal call has run e
CurRunsOf(e) == Cardinality({i \in 1..Len(CurCalls) : CurCalls[i] = e})

\* the latest processSignal call walked the list that held e: it was for
\* e's signal, began after e was pushed, and no earlier call had replaced
\* that list
CurWalked(e) ==
    /\ cur.ok
    /\ cur.sig = elems[e].sig
    /\ cur.nreg >= e
    /\ cur.sig \in KillSignals => truncs = 1

\* C19, the steps: a remover call takes its own element, and nothing else,
\* out of every list; no list object and no map entry comes or goes.
C19_Steps ==
    \A e \in Elems :
        CallRemover(e)
        => /\ cbsList' = cbsList
           /\ Len(lists') = Len(lists)
           /\ \A l \in 1..Len(lists) :
                  lists'[l] = SelectSeq(lists[l], LAMBDA x : x # e)

\* C19, the states: of two registrations of the same callback for one
\* signal, when the remover of one was called and that of the other was
\* not, the other is still in its list, and a processSignal call that
\* walks this list runs it once.
C19_States ==
    \A e1, e2 \in Elems :
        Twins(e1, e2) /\ e1 \in removed /\ e2 \notin removed
        => /\ InList(lists[elems[e2].l], e2)
           /\ ~InList(lists[elems[e1].l], e1)
           /\ CurRunsOf(e2) <= 1
           /\ CurWalked(e2) /\ CurDone => CurRunsOf(e2) = 1

\* C19: a remover removes the list entry of its own OnSignal call, found by
\* the entry and not by the callback's value.
C19_RemoveByIdentity == []C19_States /\ [][C19_Steps]_vars

\* C19 witness: the same callback registered twice for one signal, the
\* remover of one of the two called before either ran, and a processSignal
\* call for the signal has run the other one, once, and nothing else
C19_Witness ==
    \E e1, e2 \in Elems :
        /\ Twins(e1, e2)
        /\ e1 \in removed
        /\ e2 \notin removed
        /\ ~InList(log, e1)
        /\ CurWalked(e2)
        /\ cur.nreg >= e1
        /\ CurDone
        /\ CurCalls = <<e2>>

\* the elements of the list processSignal walks that it has passed already,
\* last first
Passed ==
    LET q == lists[loop.cbs]
    IN  IF loop.e = Nil THEN Reverse(q)
        ELSE Reverse(SubSeq(q, IndexOf(q, loop.e) + 1, Len(q)))

\* C20, the states: while processSignal is in its loop it holds mux, the
\* element it is at is in the list it walks, and the callbacks it has run
\* are the elements it has passed.
C20_States ==
    loop.pc = "iterate"
    => /\ mux
       /\ loop.e # Nil => InList(lists[loop.cbs], loop.e)
       /\ CurCalls = Passed

\* C20, the steps: the list processSignal walks is the one the registry held
\* for the signal when it took the lock; from then to its return no step
\* registers or removes anything or changes any list; and a callback runs
\* only as a step of the one dispatcher goroutine.
C20_Steps ==
    /\ ProcessLock /\ cbsList[loop.s] # NoList
       => /\ mux'
          /\ loop'.cbs = cbsList[loop.s]
          /\ lists'[loop'.cbs] = ListOf(loop.s)
    /\ loop.pc = "iterate"
       => /\ elems' = elems
          /\ removed' = removed
          /\ lists' = lists
          /\ cbsList' = cbsList
    /\ log' # log => ProcessCall

\* C20: processSignal holds mux from its lookup until its last callback has
\* returned, so what it runs is what the list held when it took the lock.
C20_LockHeldThroughout == []C20_States /\ [][C20_Steps]_vars

\* C20 witness: processSignal is between two callbacks of a list of two or
\* more, holding mux, while a caller still has calls to make
C20_Witness ==
    /\ loop.pc = "iterate"
    /\ mux
    /\ Len(lists[loop.cbs]) >= 2
    /\ Len(CurCalls) = 1
    /\ loop.e # Nil
    /\ ops < budget

====
